---------------------------- MODULE Spec2Model ----------------------------
(***************************************************************************)
(* The metrics middleware of the relayer engine                            *)
(* (src/relayer/middleware/metrics.middleware.ts).                         *)
(*                                                                         *)
(* metrics(opts) builds three instruments on a registry and returns an     *)
(* async handler (ctx, next).  One invocation of that handler is one       *)
(* "attempt".  The handler suspends at two awaits: `await next()` and      *)
(* `await getLabels(...)` (which itself awaits the customizer); an action  *)
(* of this model is the code that runs between two suspensions.            *)
(*                                                                         *)
(* JavaScript values are encoded as strings: a number n is "#n", a string  *)
(* is itself, null and undefined are "null" and "undefined" where they are *)
(* raised values.  The elapsed time handed to observe() is not modelled:   *)
(* the histogram is the bag of label sets it has been observed under.      *)
(***************************************************************************)
EXTENDS Integers, Sequences, FiniteSets, Bags, TLC

\* ------------------------------------------------------------------ bounds
\* Handler invocations in one behaviour.
MaxRuns == 2
\* job.attempts and job.maxAttempts range over 0..MaxAttemptValue when set.
MaxAttemptValue == 2

\* ------------------------------------------------------- JavaScript values
\* `let failure: Error = null` (line 90).
JSNull == "null"

\* Values next() may raise: an Error object, and the values JavaScript also
\* lets a promise reject with (Promise.reject() and throw undefined, throw null).
RaisedValues == {"Error: boom", "undefined", JSNull}

\* ToBoolean of a value in the string encoding: null, undefined, 0 and "" are
\* falsy, everything else is truthy (`if (failure)`, `if (labels[key])`).
Truthy(v) == v \notin {JSNull, "undefined", "#0", ""}

\* An optional number field: unset (undefined) or set to v.
Undefined == [set |-> FALSE, v |-> 0]
Num(n) == [set |-> TRUE, v |-> n]
OptNums == {Undefined} \cup {Num(n) : n \in 0..MaxAttemptValue}

\* x ?? d on an optional number.
Coalesce(x, d) == IF x.set THEN x.v ELSE d

\* ctx.storage.job: absent, or a job whose attempts and maxAttempts are each
\* set or unset.
NoJob == [present |-> FALSE, attempts |-> Undefined, maxAttempts |-> Undefined]
Jobs ==
    {NoJob} \cup {[present |-> TRUE, attempts |-> a, maxAttempts |-> m] :
                    a \in OptNums, m \in OptNums}

\* ------------------------------------------------------------ label sets
\* A label set (MetricRecord) is a function from label names to values.
EmptyLabels == [k \in {} |-> ""]

\* { ...a, ...b }: the keys of both, b's value where both have the key.
Spread(a, b) ==
    [k \in (DOMAIN a) \cup (DOMAIN b) |-> IF k \in DOMAIN b THEN b[k] ELSE a[k]]

SeqRange(s) == {s[n] : n \in 1..Len(s)}


\* bag[e] + 1 (Counter.labels(e).inc(), Histogram.labels(e).observe(t)).
BagAdd(bag, e) ==
    IF e \in DOMAIN bag THEN [bag EXCEPT ![e] = @ + 1] ELSE bag @@ (e :> 1)

\* The sum of a counter over all its label sets.
Total(bag) == BagCardinality(bag)

\* ------------------------------------------------------------------- opts
\* MetricsOpts.labels: absent, or a MetricLabelsOpts with its labelNames (the
\* customizer is a function of the caller; its behaviour is drawn per call).
NoLabelsOpt == [present |-> FALSE, labelNames |-> <<>>]
LabelNamesChoices == {<<>>, <<"a">>, <<"a", "status">>, <<"terminal">>}
LabelsOpts ==
    {NoLabelsOpt} \cup {[present |-> TRUE, labelNames |-> ln] : ln \in LabelNamesChoices}

\* What a customizer may resolve with: any record over these keys and values.
CustomizerValues ==
    [a |-> {"#1", "#0"}, b |-> {"#2"}, status |-> {"custom"}, terminal |-> {"true"}]
CustomizerKeys == DOMAIN CustomizerValues
CustomizerResults ==
    UNION {[ks -> UNION {CustomizerValues[k] : k \in ks}] : ks \in SUBSET CustomizerKeys}
MetricRecords ==
    {r \in CustomizerResults : \A k \in DOMAIN r : r[k] \in CustomizerValues[k]}

\* The error a failing customizer raises.
CustomizerError == "Error: customizer"

\* -------------------------------------------------------------- getLabels
\* const defaultLabels = { status: failed ? "failed" : "succeeded" }
defaultLabels(isFailed) == [status |-> IF isFailed THEN "failed" ELSE "succeeded"]

\* const allowedKeys = opts.labels?.labelNames ?? []
allowedKeys(o) == IF o.present THEN o.labelNames ELSE <<>>

\* The customizer's record taken as it is, with no allow-list.
validatedLabels_Unfiltered(customLabels, keys) == customLabels

\* allowedKeys.forEach(key => { if (labels[key]) validatedLabels[key] = labels[key] })
\* (a key the record lacks reads as undefined, which is falsy).
validatedLabels(customLabels, keys) ==
    [k \in {key \in SeqRange(keys) :
              key \in DOMAIN customLabels /\ Truthy(customLabels[key])}
        |-> customLabels[k]]

\* The merge the other way round: { ...defaultLabels, ...validatedLabels }.
getLabelsResolved_DefaultsFirst(customLabels, o, isFailed) ==
    Spread(defaultLabels(isFailed), validatedLabels(customLabels, allowedKeys(o)))

\* return { ...validatedLabels, ...defaultLabels } once the customizer resolved.
getLabelsResolved(customLabels, o, isFailed) ==
    Spread(validatedLabels(customLabels, allowedKeys(o)), defaultLabels(isFailed))

\* catch (error) { ctx.logger?.error(...); return defaultLabels }
getLabelsCaught(isFailed) == defaultLabels(isFailed)

\* logger?.error(message, error): the errors the context's logger received.
loggerError(log, hasLogger, error) == IF hasLogger THEN Append(log, error) ELSE log

\* (ctx.storage.job?.attempts ?? 0) === (ctx.storage.job?.maxAttempts ?? -1)
reachedMaxAttempts(job) ==
    Coalesce(IF job.present THEN job.attempts ELSE Undefined, 0)
        = Coalesce(IF job.present THEN job.maxAttempts ELSE Undefined, -1)

\* `${reachedMaxAttempts}`
BoolString(b) == IF b THEN "true" ELSE "false"

\* ------------------------------------------------------------------ state
VARIABLES
    opts,                 \* the MetricsOpts metrics() was built with
    processedVaasTotal,   \* vaas_processed_total (never labelled)
    finishedVaasTotal,    \* vaas_finished_total: label set -> count
    processingDuration,   \* vaas_processing_duration: label set -> observations
    pc,                   \* where each attempt is suspended
    ctx,                  \* the attempt's context: storage.job, logger
    failure,              \* the handler's local `failure`
    failed,               \* getLabels' parameter `failed`
    labels,               \* the handler's local `labels`
    outcome,              \* how the handler's promise settled
    logged,               \* what ctx.logger.error received
    nextOutcome,          \* history: how next() settled
    custOutcome,          \* history: what the customizer did
    atStart,              \* history: the instruments' totals when the handler was invoked
    recorded,             \* history: the label sets this attempt recorded
    jobAfterNext,         \* history: ctx.storage.job as next() left it
    events                \* history: what the attempt did, in order

vars ==
    <<opts, processedVaasTotal, finishedVaasTotal, processingDuration, pc, ctx,
      failure, failed, labels, outcome, logged, nextOutcome, custOutcome,
      atStart, recorded, jobAfterNext, events>>

registry == <<processedVaasTotal, finishedVaasTotal, processingDuration>>

NoOutcome == [kind |-> "none", value |-> "undefined"]
Returned == [kind |-> "returned", value |-> "undefined"]
Raised(v) == [kind |-> "raised", value |-> v]

NoCustomizer == [kind |-> "notcalled", result |-> EmptyLabels]

\* One step of an attempt; the call of the customizer carries the job of the
\* context it was handed.
Ev(name) == [name |-> name, job |-> NoJob]
CustomizerCall(job) == [name |-> "customizer", job |-> job]

Attempts == DOMAIN pc

\* The state right after metrics(o) returned, with the handlers `ids` not yet
\* invoked.
InitWith(ids, o) ==
    /\ opts = o
    /\ processedVaasTotal = 0
    /\ finishedVaasTotal = EmptyBag
    /\ processingDuration = EmptyBag
    /\ pc = [i \in ids |-> "idle"]
    /\ ctx = [i \in ids |-> [job |-> NoJob, logger |-> FALSE]]
    /\ failure = [i \in ids |-> JSNull]
    /\ failed = [i \in ids |-> FALSE]
    /\ labels = [i \in ids |-> EmptyLabels]
    /\ outcome = [i \in ids |-> NoOutcome]
    /\ logged = [i \in ids |-> <<>>]
    /\ nextOutcome = [i \in ids |-> NoOutcome]
    /\ custOutcome = [i \in ids |-> NoCustomizer]
    /\ atStart = [i \in ids |-> [processed |-> 0, finished |-> 0, observed |-> 0]]
    /\ recorded = [i \in ids |-> [observed |-> <<>>, finished |-> <<>>]]
    /\ jobAfterNext = [i \in ids |-> NoJob]
    /\ events = [i \in ids |-> <<>>]

Init == \E o \in LabelsOpts : InitWith({1}, o)

\* ---------------------------------------------------------------- actions
\* The processed increment left out of the handler's entry.
processedInc_Skipped(counter) == counter

\* processedVaasTotal.inc() (line 87).
processedInc(counter) == counter + 1

\* The external job system invokes the handler with a context (lines 86-93):
\* processedVaasTotal.inc(), failure = null, and next() is called; the handler
\* is suspended at `await next()`.
\* `jobs` are the jobs the job system may hand over, `loggers` whether the
\* context may hold a logger, `mayStart` whether an attempt is started now.
InvokeWith(i, jobs, loggers, mayStart) ==
    /\ pc[i] \in {"idle", "done"}
    /\ mayStart
    /\ \E job \in jobs, hasLogger \in loggers :
         /\ ctx' = [ctx EXCEPT ![i] = [job |-> job, logger |-> hasLogger]]
         /\ jobAfterNext' = [jobAfterNext EXCEPT ![i] = job]
    /\ atStart' = [atStart EXCEPT ![i] =
                     [processed |-> processedVaasTotal,
                      finished |-> Total(finishedVaasTotal),
                      observed |-> Total(processingDuration)]]
    /\ processedVaasTotal' = processedInc(processedVaasTotal)
    /\ failure' = [failure EXCEPT ![i] = JSNull]
    /\ failed' = [failed EXCEPT ![i] = FALSE]
    /\ labels' = [labels EXCEPT ![i] = EmptyLabels]
    /\ outcome' = [outcome EXCEPT ![i] = NoOutcome]
    /\ logged' = [logged EXCEPT ![i] = <<>>]
    /\ nextOutcome' = [nextOutcome EXCEPT ![i] = NoOutcome]
    /\ custOutcome' = [custOutcome EXCEPT ![i] = NoCustomizer]
    /\ recorded' = [recorded EXCEPT ![i] = [observed |-> <<>>, finished |-> <<>>]]
    /\ events' = [events EXCEPT ![i] = <<Ev("processed"), Ev("next")>>]
    /\ pc' = [pc EXCEPT ![i] = "inNext"]
    /\ UNCHANGED <<opts, finishedVaasTotal, processingDuration>>

\* Any job, one attempt after the other, MaxRuns attempts in all.
Invoke(i) == InvokeWith(i, Jobs, BOOLEAN, processedVaasTotal < MaxRuns)

\* While next() runs, the downstream handlers and the external job system own
\* the context: they may rewrite ctx.storage.job.
DownstreamWritesWith(i, jobs) ==
    /\ pc[i] = "inNext"
    /\ \E job \in jobs :
         /\ job # ctx[i].job
         /\ ctx' = [ctx EXCEPT ![i].job = job]
         /\ jobAfterNext' = [jobAfterNext EXCEPT ![i] = job]
    /\ UNCHANGED <<opts, registry, pc, failure, failed, labels, outcome, logged,
                   nextOutcome, custOutcome, atStart, recorded, events>>

DownstreamWrites(i) == DownstreamWritesWith(i, Jobs)

\* getLabels up to its first suspension (lines 32-36), entered with `isFailed`:
\* the customizer is called and either raises synchronously, which the catch
\* block turns into the default labels, or hands back a promise that getLabels
\* awaits; without opts.labels the awaited promise is Promise.resolve({}).
EnterGetLabels(i, isFailed) ==
    /\ failed' = [failed EXCEPT ![i] = isFailed]
    /\ \/ /\ ~opts.present
          /\ custOutcome' = [custOutcome EXCEPT ![i] = [kind |-> "absent", result |-> EmptyLabels]]
          /\ events' = [events EXCEPT ![i] = Append(@, Ev("nextSettled"))]
          /\ pc' = [pc EXCEPT ![i] = "inCustomizer"]
          /\ UNCHANGED <<labels, logged>>
       \/ /\ opts.present
          /\ custOutcome' = [custOutcome EXCEPT ![i] = [kind |-> "pending", result |-> EmptyLabels]]
          /\ events' = [events EXCEPT ![i] =
                          @ \o <<Ev("nextSettled"), CustomizerCall(ctx[i].job)>>]
          /\ pc' = [pc EXCEPT ![i] = "inCustomizer"]
          /\ UNCHANGED <<labels, logged>>
       \/ /\ opts.present
          /\ custOutcome' = [custOutcome EXCEPT ![i] = [kind |-> "threw", result |-> EmptyLabels]]
          /\ logged' = [logged EXCEPT ![i] = loggerError(@, ctx[i].logger, CustomizerError)]
          /\ labels' = [labels EXCEPT ![i] = getLabelsCaught(isFailed)]
          /\ events' = [events EXCEPT ![i] =
                          @ \o <<Ev("nextSettled"), CustomizerCall(ctx[i].job),
                                 Ev("labels")>>]
          /\ pc' = [pc EXCEPT ![i] = "awaitGetLabels"]

\* next() resolves: the try block ends with failure still null (lines 92-99).
NextReturns(i) ==
    /\ pc[i] = "inNext"
    /\ nextOutcome' = [nextOutcome EXCEPT ![i] = Returned]
    /\ EnterGetLabels(i, failure[i] # JSNull)
    /\ UNCHANGED <<opts, registry, ctx, failure, outcome, atStart, recorded, jobAfterNext>>

\* `failure` declared outside the handler, one variable for every invocation:
\* the value caught by one attempt is the failure of all.
NextRaisesWith_SharedFailure(i, values) ==
    /\ pc[i] = "inNext"
    /\ \E e \in values :
         /\ nextOutcome' = [nextOutcome EXCEPT ![i] = Raised(e)]
         /\ failure' = [j \in Attempts |-> e]
         /\ EnterGetLabels(i, e # JSNull)
    /\ UNCHANGED <<opts, registry, ctx, outcome, atStart, recorded,
                   jobAfterNext>>

\* next() rejects with e: catch (e) { failure = e } (lines 94-99).
NextRaisesWith(i, values) ==
    /\ pc[i] = "inNext"
    /\ \E e \in values :
         /\ nextOutcome' = [nextOutcome EXCEPT ![i] = Raised(e)]
         /\ failure' = [failure EXCEPT ![i] = e]
         /\ EnterGetLabels(i, e # JSNull)
    /\ UNCHANGED <<opts, registry, ctx, outcome, atStart, recorded,
                   jobAfterNext>>

NextRaises(i) == NextRaisesWith(i, RaisedValues)

\* The awaited customizer promise settles and getLabels runs to its return
\* (lines 35-54): resolved, the result is filtered and merged; rejected, the
\* catch block logs and returns the default labels.
CustomizerSettlesWith(i, records) ==
    /\ pc[i] = "inCustomizer"
    /\ \/ /\ custOutcome[i].kind = "absent"
          /\ labels' = [labels EXCEPT ![i] = getLabelsResolved(EmptyLabels, opts, failed[i])]
          /\ UNCHANGED <<custOutcome, logged>>
       \/ /\ custOutcome[i].kind = "pending"
          /\ \E r \in records :
               /\ custOutcome' = [custOutcome EXCEPT ![i] = [kind |-> "resolved", result |-> r]]
               /\ labels' = [labels EXCEPT ![i] = getLabelsResolved(r, opts, failed[i])]
          /\ UNCHANGED logged
       \/ /\ custOutcome[i].kind = "pending"
          /\ custOutcome' = [custOutcome EXCEPT ![i] = [kind |-> "rejected", result |-> EmptyLabels]]
          /\ logged' = [logged EXCEPT ![i] = loggerError(@, ctx[i].logger, CustomizerError)]
          /\ labels' = [labels EXCEPT ![i] = getLabelsCaught(failed[i])]
    /\ events' = [events EXCEPT ![i] = Append(@, Ev("labels"))]
    /\ pc' = [pc EXCEPT ![i] = "awaitGetLabels"]
    /\ UNCHANGED <<opts, registry, ctx, failure, failed, outcome, nextOutcome,
                   atStart, recorded, jobAfterNext>>

CustomizerSettles(i) == CustomizerSettlesWith(i, MetricRecords)

\* The finished counter labelled from the status alone, not from the label
\* set the histogram was observed under.
finishedLabels_StatusOnly(lbls, fail, job) ==
    IF Truthy(fail)
    THEN [status |-> lbls["status"], terminal |-> BoolString(reachedMaxAttempts(job))]
    ELSE [status |-> lbls["status"]]

\* The label set the finished counter is incremented under (lines 102-113):
\* { ...labels, terminal: `${reachedMaxAttempts}` } inside `if (failure)`,
\* the labels alone after it.
finishedLabels(lbls, fail, job) ==
    IF Truthy(fail)
    THEN Spread(lbls, [terminal |-> BoolString(reachedMaxAttempts(job))])
    ELSE lbls

\* How the handler's promise settles (lines 102-114): `throw failure` inside
\* `if (failure)`, a normal return otherwise.
handlerOutcome(fail) == IF Truthy(fail) THEN Raised(fail) ELSE Returned

\* Finish with no `throw failure` at the end of the `if (failure)` block: line
\* 113 runs on the failure path too.
Finish_FallsThrough(i) ==
    /\ pc[i] = "awaitGetLabels"
    /\ processingDuration' = BagAdd(processingDuration, labels[i])
    /\ finishedVaasTotal' =
         IF Truthy(failure[i])
         THEN BagAdd(BagAdd(finishedVaasTotal,
                            finishedLabels(labels[i], failure[i], ctx[i].job)),
                     labels[i])
         ELSE BagAdd(finishedVaasTotal, labels[i])
    /\ recorded' = [recorded EXCEPT ![i] =
                      [observed |-> Append(@.observed, labels[i]),
                       finished |-> Append(@.finished,
                                           finishedLabels(labels[i], failure[i], ctx[i].job))]]
    /\ outcome' = [outcome EXCEPT ![i] = Returned]
    /\ events' = [events EXCEPT ![i] =
                    @ \o <<Ev("observe"), Ev("finished"), Ev("settle")>>]
    /\ pc' = [pc EXCEPT ![i] = "done"]
    /\ UNCHANGED <<opts, processedVaasTotal, ctx, failure, failed, labels, logged,
                   nextOutcome, custOutcome, atStart, jobAfterNext>>

\* Finish that counts the attempt on the job itself when it failed below the
\* maximum (job.attempts++).
Finish_WritesAttempts(i) ==
    /\ pc[i] = "awaitGetLabels"
    /\ processingDuration' = BagAdd(processingDuration, labels[i])
    /\ finishedVaasTotal' =
         BagAdd(finishedVaasTotal, finishedLabels(labels[i], failure[i], ctx[i].job))
    /\ recorded' = [recorded EXCEPT ![i] =
                      [observed |-> Append(@.observed, labels[i]),
                       finished |-> Append(@.finished,
                                           finishedLabels(labels[i], failure[i], ctx[i].job))]]
    /\ outcome' = [outcome EXCEPT ![i] = handlerOutcome(failure[i])]
    /\ ctx' = [ctx EXCEPT ![i].job =
                 IF Truthy(failure[i]) /\ @.present /\ @.attempts.set
                    /\ ~reachedMaxAttempts(@)
                 THEN [@ EXCEPT !.attempts = Num(@.v + 1)]
                 ELSE @]
    /\ events' = [events EXCEPT ![i] =
                    @ \o <<Ev("observe"), Ev("finished"), Ev("settle")>>]
    /\ pc' = [pc EXCEPT ![i] = "done"]
    /\ UNCHANGED <<opts, processedVaasTotal, failure, failed, labels, logged,
                   nextOutcome, custOutcome, atStart, jobAfterNext>>

\* Finish with `throw failure` ahead of the finished increment: a failed
\* attempt is raised to the caller before the finished counter has it.
Finish_ThrowsBeforeFinished(i) ==
    /\ pc[i] = "awaitGetLabels"
    /\ processingDuration' = BagAdd(processingDuration, labels[i])
    /\ finishedVaasTotal' =
         IF Truthy(failure[i])
         THEN finishedVaasTotal
         ELSE BagAdd(finishedVaasTotal, labels[i])
    /\ recorded' = [recorded EXCEPT ![i] =
                      [observed |-> Append(@.observed, labels[i]),
                       finished |-> IF Truthy(failure[i])
                                    THEN @.finished
                                    ELSE Append(@.finished, labels[i])]]
    /\ outcome' = [outcome EXCEPT ![i] = handlerOutcome(failure[i])]
    /\ events' = [events EXCEPT ![i] =
                    IF Truthy(failure[i])
                    THEN @ \o <<Ev("observe"), Ev("settle")>>
                    ELSE @ \o <<Ev("observe"), Ev("finished"), Ev("settle")>>]
    /\ pc' = [pc EXCEPT ![i] = "done"]
    /\ UNCHANGED <<opts, processedVaasTotal, ctx, failure, failed, labels, logged,
                   nextOutcome, custOutcome, atStart, jobAfterNext>>

\* Finish that waits until no other attempt is in flight (a lock around the
\* recording).
Finish_WaitsForOthers(i) ==
    /\ pc[i] = "awaitGetLabels"
    /\ \A j \in Attempts \ {i} : pc[j] \in {"idle", "done"}
    /\ processingDuration' = BagAdd(processingDuration, labels[i])
    /\ finishedVaasTotal' =
         BagAdd(finishedVaasTotal, finishedLabels(labels[i], failure[i], ctx[i].job))
    /\ recorded' = [recorded EXCEPT ![i] =
                      [observed |-> Append(@.observed, labels[i]),
                       finished |-> Append(@.finished,
                                           finishedLabels(labels[i], failure[i], ctx[i].job))]]
    /\ outcome' = [outcome EXCEPT ![i] = handlerOutcome(failure[i])]
    /\ events' = [events EXCEPT ![i] =
                    @ \o <<Ev("observe"), Ev("finished"), Ev("settle")>>]
    /\ pc' = [pc EXCEPT ![i] = "done"]
    /\ UNCHANGED <<opts, processedVaasTotal, ctx, failure, failed, labels, logged,
                   nextOutcome, custOutcome, atStart, jobAfterNext>>

\* `await getLabels(...)` resumes and the handler runs to its end (lines
\* 99-114): the histogram observation, then the finished increment, then the
\* handler settles with `throw failure` or a normal return.
Finish(i) ==
    /\ pc[i] = "awaitGetLabels"
    /\ processingDuration' = BagAdd(processingDuration, labels[i])
    /\ finishedVaasTotal' =
         BagAdd(finishedVaasTotal, finishedLabels(labels[i], failure[i], ctx[i].job))
    /\ recorded' = [recorded EXCEPT ![i] =
                      [observed |-> Append(@.observed, labels[i]),
                       finished |-> Append(@.finished,
                                           finishedLabels(labels[i], failure[i], ctx[i].job))]]
    /\ outcome' = [outcome EXCEPT ![i] = handlerOutcome(failure[i])]
    /\ events' = [events EXCEPT ![i] =
                    @ \o <<Ev("observe"), Ev("finished"), Ev("settle")>>]
    /\ pc' = [pc EXCEPT ![i] = "done"]
    /\ UNCHANGED <<opts, processedVaasTotal, ctx, failure, failed, labels, logged,
                   nextOutcome, custOutcome, atStart, jobAfterNext>>

Next ==
    \/ \E i \in Attempts : Invoke(i)
    \/ \E i \in Attempts : DownstreamWrites(i)
    \/ \E i \in Attempts : NextReturns(i)
    \/ \E i \in Attempts : NextRaises(i)
    \/ \E i \in Attempts : CustomizerSettles(i)
    \/ \E i \in Attempts : Finish(i)

Spec == Init /\ [][Next]_vars

\* ------------------------------------------------- concurrent attempts
\* Attempts of distinct jobs run through the one middleware instance at the
\* same time (an external worker pool), interleaving at the awaits.
NumAttempts == 2
AttemptIds == 1..NumAttempts

Job(a, m) == [present |-> TRUE, attempts |-> Num(a), maxAttempts |-> Num(m)]

ConcJobs == {Job(1, 2), Job(2, 2)}
ConcRecords == {[a |-> "#1"]}
ConcRaised == {"Error: boom", "undefined"}
ConcOpts == {NoLabelsOpt, [present |-> TRUE, labelNames |-> <<"a">>]}

InitConc == \E o \in ConcOpts : InitWith(AttemptIds, o)

\* Each handler invocation is one attempt of its own job.
InvokeConc(i) == InvokeWith(i, ConcJobs, {TRUE}, pc[i] = "idle")
DownstreamWritesConc(i) == DownstreamWritesWith(i, ConcJobs)
CustomizerSettlesConc(i) == CustomizerSettlesWith(i, ConcRecords)
NextRaisesConc(i) == NextRaisesWith(i, ConcRaised)

NextConc ==
    \/ \E i \in Attempts : InvokeConc(i)
    \/ \E i \in Attempts : DownstreamWritesConc(i)
    \/ \E i \in Attempts : NextReturns(i)
    \/ \E i \in Attempts : NextRaisesConc(i)
    \/ \E i \in Attempts : CustomizerSettlesConc(i)
    \/ \E i \in Attempts : Finish(i)

SpecConc == InitConc /\ [][NextConc]_vars

\* Two attempts under the scheduling of the event loop: a continuation runs
\* once its promise has settled, and the downstream and the customizer are
\* taken to settle.
FairIds == {1, 2}
InitFair == \E o \in ConcOpts : InitWith(FairIds, o)
SpecFair ==
    /\ InitFair
    /\ [][NextConc]_vars
    /\ \A i \in FairIds :
         /\ WF_vars(NextReturns(i) \/ NextRaisesConc(i))
         /\ WF_vars(CustomizerSettlesConc(i))
         /\ WF_vars(Finish(i))

\* ------------------------------------------------------ one job, retried
\* The external job system runs one job with maxAttempts = M through the
\* pipeline with attempts = 1, 2, ..., M: it retries while the handler raises
\* and attempts is below M, and stops once the handler returns.
RetryJobs(i) ==
    IF pc[i] = "idle"
    THEN {Job(1, m) : m \in 1..MaxAttemptValue}
    ELSE IF outcome[i].kind = "raised"
            /\ ctx[i].job.attempts.v < ctx[i].job.maxAttempts.v
         THEN {Job(ctx[i].job.attempts.v + 1, ctx[i].job.maxAttempts.v)}
         ELSE {}

InvokeRetry(i) == InvokeWith(i, RetryJobs(i), BOOLEAN, TRUE)

NextRetry ==
    \/ \E i \in Attempts : InvokeRetry(i)
    \/ \E i \in Attempts : NextReturns(i)
    \/ \E i \in Attempts : NextRaises(i)
    \/ \E i \in Attempts : CustomizerSettles(i)
    \/ \E i \in Attempts : Finish(i)

SpecRetry == Init /\ [][NextRetry]_vars

\* ----------------------------------------------------------------- claims
Done(i) == pc[i] = "done"
InFlight(i) == pc[i] \in {"inNext", "inCustomizer", "awaitGetLabels"}
DownstreamRaised(i) == nextOutcome[i].kind = "raised"
CustomizerFailed(i) == custOutcome[i].kind \in {"threw", "rejected"}
LabelNameSet == SeqRange(allowedKeys(opts))

\* C1: whatever next() raises is what the handler raises, as the same value,
\* and a normal completion of next() is a normal return of the handler.
C1_OutcomeIsDownstreamOutcome ==
    \A i \in Attempts : Done(i) => outcome[i] = nextOutcome[i]

\* C2: vaas_processed_total grows by exactly 1 per attempt, and it has grown
\* already while next() is running, however the attempt ends later.
C2_ProcessedBeforeNext ==
    \A i \in Attempts :
        (InFlight(i) \/ Done(i)) => processedVaasTotal = atStart[i].processed + 1

\* A second attempt is inside next() and is already counted.
C2_Witness ==
    \E i \in Attempts :
        /\ pc[i] = "inNext"
        /\ atStart[i].processed = 1
        /\ processedVaasTotal = 2

\* job.attempts equals job.maxAttempts, both being known.
AttemptsEqualMax(job) ==
    /\ job.present
    /\ job.attempts.set
    /\ job.maxAttempts.set
    /\ job.attempts.v = job.maxAttempts.v

\* C3: a completed attempt increments vaas_finished_total, with no terminal
\* label when next() succeeded and, when next() raised, with terminal "true"
\* exactly when job.attempts equals job.maxAttempts and "false" otherwise.
C3_FinishedTerminalLabel ==
    \A i \in Attempts :
        Done(i) =>
            /\ Len(recorded[i].finished) = 1
            /\ LET f == recorded[i].finished[1]
               IN IF DownstreamRaised(i)
                  THEN /\ "terminal" \in DOMAIN f
                       /\ f["terminal"] = BoolString(AttemptsEqualMax(ctx[i].job))
                  ELSE "terminal" \notin DOMAIN f

\* C4: on the failure path, a job that is absent or whose attempts or
\* maxAttempts is unset is recorded with terminal "false".
C4_UnsetIsNotTerminal ==
    \A i \in Attempts :
        ( /\ Done(i)
          /\ outcome[i].kind = "raised"
          /\ \/ ~ctx[i].job.present
             \/ ~ctx[i].job.attempts.set
             \/ ~ctx[i].job.maxAttempts.set )
        => /\ Len(recorded[i].finished) = 1
           /\ "terminal" \in DOMAIN recorded[i].finished[1]
           /\ recorded[i].finished[1]["terminal"] = "false"

\* C5: when the customizer raises, the attempt ends as next() ended, the
\* histogram and the finished counter are recorded under the status label
\* alone (plus terminal when next() raised), and the customizer's error goes to
\* the logger and is not what the handler raises.
C5_CustomizerErrorIsContained ==
    \A i \in Attempts :
        (Done(i) /\ CustomizerFailed(i)) =>
            /\ outcome[i] = nextOutcome[i]
            /\ outcome[i] # Raised(CustomizerError)
            /\ Len(recorded[i].observed) = 1
            /\ DOMAIN recorded[i].observed[1] = {"status"}
            /\ Len(recorded[i].finished) = 1
            /\ DOMAIN recorded[i].finished[1] =
                 {"status"} \cup (IF DownstreamRaised(i) THEN {"terminal"} ELSE {})
            /\ ctx[i].logger => logged[i] = <<CustomizerError>>

\* C6: a completed attempt leaves exactly one histogram observation, whose
\* status is "failed" if next() raised and "succeeded" if it completed
\* normally.
C6_OneObservationWithStatus ==
    \A i \in Attempts :
        Done(i) =>
            /\ Total(processingDuration) = atStart[i].observed + 1
            /\ Len(recorded[i].observed) = 1
            /\ recorded[i].observed[1]["status"] =
                 (IF DownstreamRaised(i) THEN "failed" ELSE "succeeded")

\* C7: a label set on the histogram carries only keys of labelNames and
\* status; one on the finished counter may carry terminal as well, and outside
\* labelNames only where its status is "failed".
C7_OnlyAllowedKeys ==
    /\ \A ls \in DOMAIN processingDuration :
         DOMAIN ls \subseteq LabelNameSet \cup {"status"}
    /\ \A ls \in DOMAIN finishedVaasTotal :
         /\ DOMAIN ls \subseteq LabelNameSet \cup {"status", "terminal"}
         /\ ("terminal" \in DOMAIN ls /\ "terminal" \notin LabelNameSet)
              => ls["status"] = "failed"

\* labelNames = ["a"], the customizer resolved with {a: 1, b: 2}, and the
\* attempt recorded {a: 1, status}.
C7_Witness ==
    \E i \in Attempts :
        /\ Done(i)
        /\ opts.present
        /\ opts.labelNames = <<"a">>
        /\ custOutcome[i].kind = "resolved"
        /\ custOutcome[i].result = [a |-> "#1", b |-> "#2"]
        /\ recorded[i].observed = <<[a |-> "#1", status |-> "succeeded"]>>
        /\ recorded[i].finished = <<[a |-> "#1", status |-> "succeeded"]>>

\* The status the engine derives: getLabels' default label for the `failed`
\* flag the handler passed it.
EngineStatus(i) == IF failed[i] THEN "failed" ELSE "succeeded"

\* C8: every recorded label set has a status key, its value is the one the
\* engine derived ("succeeded" or "failed"), and never the customizer's.
C8_StatusIsEngineDerived ==
    /\ \A ls \in (DOMAIN processingDuration) \cup (DOMAIN finishedVaasTotal) :
         /\ "status" \in DOMAIN ls
         /\ ls["status"] \in {"succeeded", "failed"}
    /\ \A i \in Attempts :
         Done(i) =>
            /\ recorded[i].observed[1]["status"] = EngineStatus(i)
            /\ recorded[i].finished[1]["status"] = EngineStatus(i)

\* "status" is in labelNames, the customizer resolved with its own status,
\* and the attempt recorded the engine's.
C8_Witness ==
    \E i \in Attempts :
        /\ Done(i)
        /\ "status" \in LabelNameSet
        /\ custOutcome[i].kind = "resolved"
        /\ "status" \in DOMAIN custOutcome[i].result
        /\ custOutcome[i].result["status"] # EngineStatus(i)
        /\ recorded[i].finished[1]["status"] = "failed"

\* C9: the sum of vaas_finished_total over all label sets is unchanged while
\* the attempt is in flight and is exactly one more once it has completed.
C9_FinishedOncePerAttempt ==
    \A i \in Attempts :
        /\ InFlight(i) => Total(finishedVaasTotal) = atStart[i].finished
        /\ Done(i) => Total(finishedVaasTotal) = atStart[i].finished + 1

\* An attempt that succeeded was counted, and a later one that raised was
\* counted once more.
C9_Witness ==
    \E i \in Attempts :
        /\ Done(i)
        /\ outcome[i].kind = "raised"
        /\ atStart[i].finished = 1
        /\ Total(finishedVaasTotal) = 2
        /\ \E ls \in DOMAIN finishedVaasTotal : ls["status"] = "succeeded"

\* C10: once next() has settled, ctx.storage.job holds what the downstream
\* left there, through label computation, recording and the handler's end.
C10_JobOnlyRead ==
    \A i \in Attempts :
        pc[i] \in {"inCustomizer", "awaitGetLabels", "done"}
            => ctx[i].job = jobAfterNext[i]

\* A failed attempt below its maximum has completed, its customizer having
\* failed too, and the job is as it was.
C10_Witness ==
    \E i \in Attempts :
        /\ Done(i)
        /\ outcome[i].kind = "raised"
        /\ CustomizerFailed(i)
        /\ ctx[i].job = [present |-> TRUE, attempts |-> Num(1), maxAttempts |-> Num(2)]

Rank(name) ==
    CASE name = "processed" -> 1
      [] name = "next" -> 2
      [] name = "nextSettled" -> 3
      [] name = "customizer" -> 4
      [] name = "labels" -> 5
      [] name = "observe" -> 6
      [] name = "finished" -> 7
      [] name = "settle" -> 8

EventNames(i) == {events[i][n].name : n \in 1..Len(events[i])}

\* C12: within an attempt the steps come in the order processed increment,
\* next() to completion, label computation, histogram observation, finished
\* increment, outcome; when the caller sees the outcome, the observation and
\* the finished increment of the attempt are in the registry, and neither is
\* there before the labels are computed.
C12_StepsInOrder ==
    \A i \in Attempts :
        /\ \A m, n \in 1..Len(events[i]) :
             m < n => Rank(events[i][m].name) < Rank(events[i][n].name)
        /\ InFlight(i) =>
             /\ outcome[i] = NoOutcome
             /\ recorded[i] = [observed |-> <<>>, finished |-> <<>>]
             /\ Total(processingDuration) = atStart[i].observed
             /\ Total(finishedVaasTotal) = atStart[i].finished
        /\ outcome[i] # NoOutcome =>
             /\ {"processed", "next", "nextSettled", "labels", "observe",
                 "finished", "settle"} \subseteq EventNames(i)
             /\ Len(recorded[i].observed) = 1
             /\ Len(recorded[i].finished) = 1
             /\ Total(processingDuration) = atStart[i].observed + 1
             /\ Total(finishedVaasTotal) = atStart[i].finished + 1

\* A failure has been raised to the caller after all eight steps, the
\* customizer's call among them.
C12_Witness ==
    \E i \in Attempts :
        /\ outcome[i] = Raised("Error: boom")
        /\ Len(events[i]) = 8
        /\ events[i][4].name = "customizer"
        /\ events[i][8].name = "settle"
        /\ Total(finishedVaasTotal) = atStart[i].finished + 1

\* The calls of the customizer the attempt has made.
CustomizerCalls(i) ==
    {n \in 1..Len(events[i]) : events[i][n].name = "customizer"}

\* With a customizer configured: none of its calls while next() runs, exactly
\* one once next() has settled, handed the job as next() left it.
CustomizerCalledOnceAfterNext(i) ==
    /\ pc[i] = "inNext" => CustomizerCalls(i) = {}
    /\ (opts.present /\ pc[i] \in {"inCustomizer", "awaitGetLabels", "done"}) =>
         /\ Cardinality(CustomizerCalls(i)) = 1
         /\ \A n \in CustomizerCalls(i) :
              /\ events[i][n].job = jobAfterNext[i]
              /\ \E m \in 1..(n - 1) : events[i][m].name = "nextSettled"
    /\ ~opts.present => CustomizerCalls(i) = {}

\* C13 as stated: the customizer is called once per attempt, after next(),
\* and the histogram observation and the finished increment agree on status
\* and on every custom label.
C13_OneLabelSetForBoth ==
    \A i \in Attempts :
        /\ CustomizerCalledOnceAfterNext(i)
        /\ Done(i) =>
             /\ recorded[i].observed = <<labels[i]>>
             /\ \A k \in DOMAIN recorded[i].observed[1] :
                  /\ k \in DOMAIN recorded[i].finished[1]
                  /\ recorded[i].finished[1][k] = recorded[i].observed[1][k]

\* C13, amended: as C13, but a custom label named "terminal" is left aside on
\* an attempt that is raised to the caller, where the finished counter carries
\* the engine's terminal under that name.
C13_OneLabelSetForBothButTerminal ==
    \A i \in Attempts :
        /\ CustomizerCalledOnceAfterNext(i)
        /\ Done(i) =>
             /\ recorded[i].observed = <<labels[i]>>
             /\ \A k \in DOMAIN recorded[i].observed[1] :
                  /\ k \in DOMAIN recorded[i].finished[1]
                  /\ (k # "terminal" \/ outcome[i].kind # "raised") =>
                       recorded[i].finished[1][k] = recorded[i].observed[1][k]
             /\ DOMAIN recorded[i].finished[1] \subseteq
                  DOMAIN recorded[i].observed[1] \cup {"terminal"}

\* The customizer was called once, after next() raised, with the job next()
\* left; its label a is on the histogram and on the finished counter alike.
C13_Witness ==
    \E i \in Attempts :
        /\ Done(i)
        /\ outcome[i].kind = "raised"
        /\ custOutcome[i].kind = "resolved"
        /\ Cardinality(CustomizerCalls(i)) = 1
        /\ events[i][4] = CustomizerCall([present |-> TRUE, attempts |-> Num(2),
                                          maxAttempts |-> Num(2)])
        /\ recorded[i].observed = <<[a |-> "#1", status |-> "failed"]>>
        /\ recorded[i].finished =
             <<[a |-> "#1", status |-> "failed", terminal |-> "true"]>>

\* C14: under fairness, an attempt that has been started (its next() and its
\* customizer settling) ends: the finished counter is incremented and the
\* handler returns or raises.
C14_AttemptEventuallyFinishes ==
    \A i \in FairIds :
        (pc[i] = "inNext")
            ~> (pc[i] = "done" /\ outcome[i] # NoOutcome
                /\ Len(recorded[i].finished) = 1)

\* One attempt has ended while the other, started before it ended, is still
\* waiting for its labels.
C14_Witness ==
    \E i, j \in Attempts :
        /\ i # j
        /\ Done(i)
        /\ outcome[i].kind = "raised"
        /\ pc[j] = "awaitGetLabels"
        /\ atStart[j].finished = 0

\* C15: on the registry, a vaas_finished_total sample with status "failed"
\* carries a terminal label ("true" or "false"), and one with status
\* "succeeded" carries none.
C15_TerminalIffFailed ==
    \A ls \in DOMAIN finishedVaasTotal :
        /\ ls["status"] = "failed" =>
             /\ "terminal" \in DOMAIN ls
             /\ ls["terminal"] \in {"true", "false"}
        /\ ls["status"] = "succeeded" => "terminal" \notin DOMAIN ls

Started == {i \in Attempts : pc[i] # "idle"}
Completed == {i \in Attempts : Done(i)}
Running == {i \in Attempts : InFlight(i)}

\* C16: with attempts interleaving at the awaits, vaas_processed_total is the
\* number of attempts started, the sum of vaas_finished_total the number
\* completed, finished <= observations <= processed, and processed minus
\* finished the number of attempts in flight.
C16_CountersCountAttempts ==
    /\ processedVaasTotal = Cardinality(Started)
    /\ Total(finishedVaasTotal) = Cardinality(Completed)
    /\ Total(finishedVaasTotal) <= Total(processingDuration)
    /\ Total(processingDuration) <= processedVaasTotal
    /\ processedVaasTotal - Total(finishedVaasTotal) = Cardinality(Running)

\* One attempt has completed with a failure while another, started before
\* that, is still waiting for its customizer.
C16_Witness ==
    \E i, j \in Attempts :
        /\ Done(i)
        /\ outcome[i].kind = "raised"
        /\ pc[j] = "inCustomizer"
        /\ atStart[j].finished = 0
        /\ processedVaasTotal = 2
        /\ Total(finishedVaasTotal) = 1

\* What the attempt's own next() raised, as the handler holds it.
OwnFailure(i) ==
    IF nextOutcome[i].kind = "raised" THEN nextOutcome[i].value ELSE JSNull

\* The label set getLabels yields from the attempt's own customizer and its
\* own failure.
OwnLabels(i) ==
    IF custOutcome[i].kind \in {"resolved", "absent"}
    THEN getLabelsResolved(custOutcome[i].result, opts, OwnFailure(i) # JSNull)
    ELSE getLabelsCaught(OwnFailure(i) # JSNull)

\* How often the label set is among those the completed attempts recorded.
TimesRecorded(field, ls) ==
    Cardinality({i \in Completed : recorded[i][field] = <<ls>>})

\* C17: what an attempt records and how it ends is a function of its own
\* next() outcome, its own customizer and its own context, whatever the
\* interleaved attempts do; the registry holds each attempt's label sets and
\* nothing else.
C17_AttemptsAreIsolated ==
    /\ \A i \in Completed :
         /\ recorded[i].observed = <<OwnLabels(i)>>
         /\ recorded[i].finished =
              <<finishedLabels(OwnLabels(i), OwnFailure(i), jobAfterNext[i])>>
         /\ outcome[i] = handlerOutcome(OwnFailure(i))
    /\ \A ls \in DOMAIN processingDuration :
         processingDuration[ls] = TimesRecorded("observed", ls)
    /\ \A ls \in DOMAIN finishedVaasTotal :
         finishedVaasTotal[ls] = TimesRecorded("finished", ls)

\* Two attempts that overlapped have completed, one a success under the
\* customizer's label, the other a terminal failure whose customizer failed.
C17_Witness ==
    \E i, j \in Attempts :
        /\ Done(i) /\ Done(j)
        /\ atStart[i].finished = 0 /\ atStart[j].finished = 0
        /\ outcome[i] = Returned
        /\ nextOutcome[i] = Returned
        /\ recorded[i].finished = <<[a |-> "#1", status |-> "succeeded"]>>
        /\ outcome[j] = Raised("Error: boom")
        /\ recorded[j].finished = <<[status |-> "failed", terminal |-> "true"]>>

\* The vaas_finished_total samples with terminal "true", counted.
TerminalTrueCount ==
    LET hits == {ls \in DOMAIN finishedVaasTotal :
                   "terminal" \in DOMAIN ls /\ ls["terminal"] = "true"}
        sum[S \in SUBSET hits] ==
            IF S = {} THEN 0
            ELSE LET ls == CHOOSE x \in S : TRUE
                 IN finishedVaasTotal[ls] + sum[S \ {ls}]
    IN sum[hits]

\* C18: over the life of one job retried with attempts = 1..M, terminal
\* "true" is recorded at most once, only on the attempt with attempts = M and
\* only if that attempt failed, and every earlier failed attempt is recorded
\* with terminal "false".
C18_TerminalOnlyOnLastFailure ==
    /\ TerminalTrueCount <= 1
    /\ \A i \in Attempts :
         Done(i) =>
            LET f == recorded[i].finished[1]
                job == ctx[i].job
            IN /\ ("terminal" \in DOMAIN f /\ f["terminal"] = "true") =>
                    /\ job.attempts.v = job.maxAttempts.v
                    /\ DownstreamRaised(i)
               /\ (DownstreamRaised(i) /\ job.attempts.v < job.maxAttempts.v) =>
                    /\ "terminal" \in DOMAIN f
                    /\ f["terminal"] = "false"

=============================================================================
